---- MODULE Spec2Model ----
(***************************************************************************)
(* Model of pyalarmdotcom.Alarmdotcom (src/pyalarmdotcom/pyalarmdotcom.py). *)
(*                                                                         *)
(* One controller object driven by one sequential caller.  Every statement *)
(* of the class that talks to the selenium driver is one step (pc names    *)
(* the statement that runs next); what the driver answers (element found,  *)
(* wait timed out, page title) is chosen nondeterministically, and the     *)
(* alarm panel can change state out-of-band between any two steps.         *)
(***************************************************************************)
EXTENDS Naturals, Sequences, FiniteSets, TLC

\* Saturation bound of the per-call counters (reads, logins, drivers).
MaxCount == 3

\* __init__(self, username, password, timeout=5)
DefaultTimeout == 5

\* _set_state(self, btn, timeout=10)
CompletionTimeout == 10

VARIABLES
    pc,             \* statement the controller executes next
    op,             \* public operation in progress (or the last one finished)
    btn,            \* argument of _set_state, <<>> outside it
    username,       \* self.username
    password,       \* self.password
    timeout,        \* self.timeout
    loginCaller,    \* who called _login: "init" (__init__) or "state" (except handler)
    loginResult,    \* return value of the last _login: "True", "False", "none"
    drivers,        \* PhantomJS processes started and never quit (saturating)
    title,          \* self._driver.title of the current driver, "NoPage" if none loaded
    authed,         \* the current driver was created by a _login that returned True
    submitted,      \* the last _login typed the credentials and clicked sign-in
    sentUser,       \* text typed into the username field by the last _login
    sentPwd,        \* text typed into the password field by the last _login
    shown,          \* alt text of the status image as currently rendered
    remote,         \* true state of the alarm panel
    current_status, \* local of state(): the alt text read, "NoValue" before
    outcome,        \* how the call ended: "pending", "return" or an exception name
    retval,         \* value returned by the call
    reads,          \* attempts of the try block of state() in this call (saturating)
    logins,         \* _login calls made by state() in this call (saturating)
    refreshed,      \* refresh button clicked in this call on the current driver
    readAttempt,    \* value of reads when current_status was read
    readRefreshed,  \* value of refreshed when current_status was read
    fails,          \* try-block attempts of this call ended by a caught exception (saturating)
    failedReconnect,\* a _login called by state() returned False in this call
    readsAfterFail, \* try-block attempts begun after such a False (saturating)
    clicks,         \* action controls clicked in this call, in order
    spinnerGone,    \* the wait for the spinner to disappear succeeded in this call
    timedOut,       \* which _set_state wait timed out in this call, "none" if none
    events,         \* driver interactions that succeeded since the current attempt of
                    \* state() began, in order
    lastExc,        \* exception raised by the last failing statement of the try block
    remoteAtClick   \* state of the panel when the primary control was clicked, "none" before

cfg  == <<username, password, timeout>>
lg   == <<loginCaller, loginResult>>
drv  == <<drivers, title, authed, submitted, sentUser, sentPwd, shown>>
res  == <<current_status, outcome, retval>>
hist == <<reads, logins, fails, refreshed, readAttempt, readRefreshed, failedReconnect,
          readsAfterFail, clicks, spinnerGone, timedOut>>
trace == <<events, lastExc, remoteAtClick>>
vars == <<pc, op, btn, cfg, lg, drv, remote, res, hist, trace>>

----------------------------------------------------------------------------
\* Inputs and driver answers

Usernames == {"alice", "mallory"}
Passwords == {"good", "bad"}
Timeouts  == {DefaultTimeout, CompletionTimeout}

\* The account the remote service accepts.
ValidUser == "alice"
ValidPwd  == "good"

\* Alt texts of the status image; "Unknown" stands for every other text.
AlarmStates == {"Disarmed", "Armed Stay", "Armed Away", "Unknown"}

\* Page titles; "Other" stands for every title the code does not test for.
LoginTitle   == "Customer Login"
LandingTitle == "Current System Status"
Titles       == {LoginTitle, LandingTitle, "Other"}

\* Exceptions the except clause of state() catches.
TransientErrors == {"NoSuchElementException", "NoSuchWindowException",
                    "TimeoutException", "URLError"}

\* A driver failure outside that set.
OtherError == "WebDriverException"

DriverErrors == TransientErrors \cup {OtherError}

\* Locator tuples of the action controls.
BTN_DISARM   == <<"id", "btnDisarm">>
BTN_ARM_STAY == <<"id", "btnArmStay", "btnArmOptionStay">>
BTN_ARM_AWAY == <<"id", "btnArmAway", "btnArmOptionAway">>

Inc(n) == IF n < MaxCount THEN n + 1 ELSE n

----------------------------------------------------------------------------
Init ==
    /\ pc = "new"
    /\ op = "none"
    /\ btn = <<>>
    /\ username = "NoValue"
    /\ password = "NoValue"
    /\ timeout = 0
    /\ loginCaller = "none"
    /\ loginResult = "none"
    /\ drivers = 0
    /\ title = "NoPage"
    /\ authed = FALSE
    /\ submitted = FALSE
    /\ sentUser = "NoValue"
    /\ sentPwd = "NoValue"
    /\ shown \in AlarmStates
    /\ remote \in AlarmStates
    /\ current_status = "NoValue"
    /\ outcome = "pending"
    /\ retval = "NoValue"
    /\ reads = 0
    /\ logins = 0
    /\ fails = 0
    /\ refreshed = FALSE
    /\ readAttempt = 0
    /\ readRefreshed = FALSE
    /\ failedReconnect = FALSE
    /\ readsAfterFail = 0
    /\ clicks = <<>>
    /\ spinnerGone = FALSE
    /\ timedOut = "none"
    /\ events = <<>>
    /\ lastExc = "none"
    /\ remoteAtClick = "none"

\* An exception leaves the call: __init__ produces no object, any other
\* operation ends and the controller can be called again.
RaisePc == IF op = "init" THEN "dead" ELSE "idle"

\* The per-call bookkeeping at the start of a public call.
FreshCall ==
    /\ current_status' = "NoValue"
    /\ outcome' = "pending"
    /\ retval' = "NoValue"
    /\ reads' = 0
    /\ logins' = 0
    /\ fails' = 0
    /\ refreshed' = FALSE
    /\ readAttempt' = 0
    /\ readRefreshed' = FALSE
    /\ failedReconnect' = FALSE
    /\ readsAfterFail' = 0
    /\ clicks' = <<>>
    /\ spinnerGone' = FALSE
    /\ timedOut' = "none"
    /\ events' = <<>>
    /\ lastExc' = "none"
    /\ remoteAtClick' = "none"

----------------------------------------------------------------------------
\* __init__

Construct ==
    /\ pc = "new"
    /\ \E u \in Usernames, p \in Passwords, t \in Timeouts :
          /\ username' = u
          /\ password' = p
          /\ timeout' = t
    /\ op' = "init"
    /\ loginCaller' = "init"
    /\ loginResult' = "none"
    /\ pc' = "login_open"
    /\ FreshCall
    /\ UNCHANGED <<btn, drv, remote>>

\* Faulty variant: the constructor drops the value of _login, as state() does.
LoginAccepted_Ignored(r) == TRUE

\* if not self._login(): raise LoginException
LoginAccepted(r) == r = "True"

InitAfterLogin ==
    /\ pc = "login_ret"
    /\ loginCaller = "init"
    /\ IF LoginAccepted(loginResult)
          THEN /\ pc' = "idle"
               /\ outcome' = "return"
          ELSE /\ pc' = "dead"
               /\ outcome' = "LoginException"
    /\ UNCHANGED <<op, btn, cfg, lg, drv, remote, current_status, retval, hist>>
    /\ UNCHANGED trace

----------------------------------------------------------------------------
\* _login

LoginOpen ==
    /\ pc = "login_open"
    /\ drivers' = Inc(drivers)
    /\ authed' = FALSE
    /\ submitted' = FALSE
    /\ refreshed' = FALSE
    /\ \/ /\ \E t \in Titles : title' = t
          /\ pc' = "login_title"
          /\ UNCHANGED <<outcome>>
       \/ /\ title' = "NoPage"
          /\ pc' = RaisePc
          /\ outcome' = OtherError
    /\ UNCHANGED <<op, btn, cfg, lg, sentUser, sentPwd, shown, remote,
                   current_status, retval, reads, logins, fails,
                   readAttempt, readRefreshed, failedReconnect, readsAfterFail,
                   clicks, spinnerGone, timedOut>>
    /\ UNCHANGED trace

LoginCheckTitle ==
    /\ pc = "login_title"
    /\ IF title = LoginTitle
          THEN /\ pc' = "login_find"
               /\ UNCHANGED loginResult
          ELSE /\ pc' = "login_ret"
               /\ loginResult' = "False"
    /\ UNCHANGED <<op, btn, cfg, loginCaller, drv, remote, res, hist>>
    /\ UNCHANGED trace

LoginFind ==
    /\ pc = "login_find"
    /\ \/ /\ pc' = "login_submit"
          /\ UNCHANGED outcome
       \/ /\ pc' = RaisePc
          /\ outcome' = "NoSuchElementException"
    /\ UNCHANGED <<op, btn, cfg, lg, drv, remote, current_status, retval, hist>>
    /\ UNCHANGED trace

\* The page the sign-in click leads to: the landing page needs the valid
\* account; any account can end on another page.
TitlesAfterSubmit(u, p) ==
    IF u = ValidUser /\ p = ValidPwd THEN Titles ELSE Titles \ {LandingTitle}

\* Faulty variant: the password is wiped once it has been typed.
LoginSubmit_ForgetsPassword ==
    /\ pc = "login_submit"
    /\ sentUser' = username
    /\ sentPwd' = password
    /\ password' = "NoValue"
    /\ submitted' = TRUE
    /\ \E t \in TitlesAfterSubmit(username, password) : title' = t
    /\ shown' = remote
    /\ pc' = "login_landing"
    /\ UNCHANGED <<op, btn, username, timeout, lg, drivers, authed, remote, res, hist>>
    /\ UNCHANGED trace

LoginSubmit ==
    /\ pc = "login_submit"
    /\ sentUser' = username
    /\ sentPwd' = password
    /\ submitted' = TRUE
    /\ \E t \in TitlesAfterSubmit(username, password) : title' = t
    /\ shown' = remote
    /\ pc' = "login_landing"
    /\ UNCHANGED <<op, btn, cfg, lg, drivers, authed, remote, res, hist>>
    /\ UNCHANGED trace

LoginCheckLanding ==
    /\ pc = "login_landing"
    /\ IF title = LandingTitle
          THEN /\ loginResult' = "True"
               /\ authed' = TRUE
          ELSE /\ loginResult' = "False"
               /\ authed' = FALSE
    /\ pc' = "login_ret"
    /\ UNCHANGED <<op, btn, cfg, loginCaller, drivers, title, submitted,
                   sentUser, sentPwd, shown, remote, res, hist>>
    /\ UNCHANGED trace

----------------------------------------------------------------------------
\* state (property)

\* Faulty variant: a bare except, every driver failure is caught.
Caught_Everything(e) == TRUE

\* except (NoSuchElementException, NoSuchWindowException, TimeoutException, URLError)
Caught(e) == e \in TransientErrors

StateWaitRefresh ==
    /\ pc = "st_wait"
    /\ reads' = Inc(reads)
    /\ readsAfterFail' = IF failedReconnect THEN Inc(readsAfterFail) ELSE readsAfterFail
    /\ \/ /\ pc' = "st_click"
          /\ UNCHANGED <<outcome, fails, lastExc>>
       \/ \E e \in DriverErrors :
             /\ lastExc' = e
             /\ IF Caught(e)
                   THEN /\ pc' = "st_except"
                        /\ fails' = Inc(fails)
                        /\ UNCHANGED outcome
                   ELSE /\ pc' = RaisePc
                        /\ outcome' = e
                        /\ UNCHANGED fails
    /\ UNCHANGED <<op, btn, cfg, lg, drv, remote, current_status, retval, logins,
                   refreshed, readAttempt, readRefreshed, failedReconnect, clicks,
                   spinnerGone, timedOut, events, remoteAtClick>>

StateClickRefresh ==
    /\ pc = "st_click"
    /\ \/ /\ pc' = "st_read"
          /\ refreshed' = TRUE
          /\ shown' = remote
          /\ events' = Append(events, "refresh")
          /\ UNCHANGED <<outcome, fails, lastExc>>
       \/ \E e \in DriverErrors :
             /\ lastExc' = e
             /\ IF Caught(e)
                   THEN /\ pc' = "st_except"
                        /\ fails' = Inc(fails)
                        /\ UNCHANGED outcome
                   ELSE /\ pc' = RaisePc
                        /\ outcome' = e
                        /\ UNCHANGED fails
             /\ UNCHANGED <<refreshed, shown, events>>
    /\ UNCHANGED <<op, btn, cfg, lg, drivers, title, authed, submitted, sentUser,
                   sentPwd, remote, current_status, retval, reads, logins,
                   readAttempt, readRefreshed, failedReconnect, readsAfterFail,
                   clicks, spinnerGone, timedOut, remoteAtClick>>

\* `return current_status`: the public status query hands the value to the
\* caller, disarm/arm_away/arm_stay go on to compare it.
StateRead ==
    /\ pc = "st_read"
    /\ \/ /\ current_status' = shown
          /\ readAttempt' = reads
          /\ readRefreshed' = refreshed
          /\ events' = Append(events, "read")
          /\ IF op = "state"
                THEN /\ pc' = "idle"
                     /\ outcome' = "return"
                     /\ retval' = shown
                ELSE /\ pc' = "decide"
                     /\ UNCHANGED <<outcome, retval>>
          /\ UNCHANGED <<fails, lastExc>>
       \/ \E e \in DriverErrors :
             /\ lastExc' = e
             /\ IF Caught(e)
                   THEN /\ pc' = "st_except"
                        /\ fails' = Inc(fails)
                        /\ UNCHANGED outcome
                   ELSE /\ pc' = RaisePc
                        /\ outcome' = e
                        /\ UNCHANGED fails
             /\ UNCHANGED <<current_status, retval, readAttempt, readRefreshed, events>>
    /\ UNCHANGED <<op, btn, cfg, lg, drv, remote, reads, logins, refreshed,
                   failedReconnect, readsAfterFail, clicks, spinnerGone, timedOut,
                   remoteAtClick>>

\* Faulty variant: the handler retries on the old driver without _login.
StateExcept_NoLogin ==
    /\ pc = "st_except"
    /\ pc' = "st_wait"
    /\ UNCHANGED <<op, btn, cfg, lg, drv, remote, res, hist>>
    /\ UNCHANGED trace

\* except (...) as e: log, then self._login()
StateExcept ==
    /\ pc = "st_except"
    /\ logins' = Inc(logins)
    /\ loginCaller' = "state"
    /\ loginResult' = "none"
    /\ pc' = "login_open"
    /\ events' = <<>>
    /\ UNCHANGED <<op, btn, cfg, drv, remote, res, reads, fails, refreshed, readAttempt,
                   readRefreshed, failedReconnect, readsAfterFail, clicks,
                   spinnerGone, timedOut, lastExc, remoteAtClick>>

\* Faulty variant: after the reconnect only the read is repeated, not the
\* refresh click.
StateAfterLogin_ReadOnly ==
    /\ pc = "login_ret"
    /\ loginCaller = "state"
    /\ failedReconnect' = (failedReconnect \/ loginResult = "False")
    /\ pc' = "st_read"
    /\ UNCHANGED <<op, btn, cfg, lg, drv, remote, res, reads, logins, fails, refreshed,
                   readAttempt, readRefreshed, readsAfterFail, clicks, spinnerGone,
                   timedOut>>
    /\ UNCHANGED trace

\* The value of self._login() is dropped; `return self.state` starts over.
StateAfterLogin ==
    /\ pc = "login_ret"
    /\ loginCaller = "state"
    /\ failedReconnect' = (failedReconnect \/ loginResult = "False")
    /\ pc' = "st_wait"
    /\ UNCHANGED <<op, btn, cfg, lg, drv, remote, res, reads, logins, fails, refreshed,
                   readAttempt, readRefreshed, readsAfterFail, clicks, spinnerGone,
                   timedOut>>
    /\ UNCHANGED trace

----------------------------------------------------------------------------
\* Public calls

CallState ==
    /\ pc = "idle"
    /\ op' = "state"
    /\ btn' = <<>>
    /\ pc' = "st_wait"
    /\ FreshCall
    /\ UNCHANGED <<cfg, lg, drv, remote>>

CallDisarm ==
    /\ pc = "idle"
    /\ op' = "disarm"
    /\ btn' = <<>>
    /\ pc' = "st_wait"
    /\ FreshCall
    /\ UNCHANGED <<cfg, lg, drv, remote>>

CallArmAway ==
    /\ pc = "idle"
    /\ op' = "arm_away"
    /\ btn' = <<>>
    /\ pc' = "st_wait"
    /\ FreshCall
    /\ UNCHANGED <<cfg, lg, drv, remote>>

\* Faulty variant: arm_stay decides on the status image as last rendered,
\* without a status read of its own.
CallArmStay_Cached ==
    /\ pc = "idle"
    /\ op' = "arm_stay"
    /\ btn' = <<>>
    /\ pc' = "decide"
    /\ current_status' = shown
    /\ outcome' = "pending"
    /\ retval' = "NoValue"
    /\ reads' = 0
    /\ logins' = 0
    /\ fails' = 0
    /\ refreshed' = FALSE
    /\ readAttempt' = 0
    /\ readRefreshed' = FALSE
    /\ failedReconnect' = FALSE
    /\ readsAfterFail' = 0
    /\ clicks' = <<>>
    /\ spinnerGone' = FALSE
    /\ timedOut' = "none"
    /\ events' = <<>>
    /\ lastExc' = "none"
    /\ remoteAtClick' = "none"
    /\ UNCHANGED <<cfg, lg, drv, remote>>

CallArmStay ==
    /\ pc = "idle"
    /\ op' = "arm_stay"
    /\ btn' = <<>>
    /\ pc' = "st_wait"
    /\ FreshCall
    /\ UNCHANGED <<cfg, lg, drv, remote>>

\* Faulty variant: disarm only from a recognised armed state.
DisarmAllowed_ArmedOnly(s) == s \in {"Armed Stay", "Armed Away"}

\* Faulty variant: disarm without the precondition.
DisarmAllowed_Always(s) == TRUE

\* if self.state != 'Disarmed'
DisarmAllowed(s) == s # "Disarmed"

\* Faulty variant: arm_away rejected only when already armed away.
ArmAwayAllowed_UnlessAway(s) == s # "Armed Away"

\* if self.state == 'Disarmed'
ArmAwayAllowed(s) == s = "Disarmed"

\* Faulty variant: arm_stay without the precondition.
ArmStayAllowed_Always(s) == TRUE

\* if self.state == 'Disarmed'
ArmStayAllowed(s) == s = "Disarmed"

\* if self.state != 'Disarmed': self._set_state(BTN_DISARM) else: raise
DisarmDecide ==
    /\ pc = "decide"
    /\ op = "disarm"
    /\ IF DisarmAllowed(current_status)
          THEN /\ btn' = BTN_DISARM
               /\ pc' = "set_wait1"
               /\ UNCHANGED outcome
          ELSE /\ pc' = "idle"
               /\ outcome' = "SystemDisarmedError"
               /\ UNCHANGED btn
    /\ UNCHANGED <<op, cfg, lg, drv, remote, current_status, retval, hist>>
    /\ UNCHANGED trace

\* if self.state == 'Disarmed': self._set_state(BTN_ARM_AWAY) else: raise
ArmAwayDecide ==
    /\ pc = "decide"
    /\ op = "arm_away"
    /\ IF ArmAwayAllowed(current_status)
          THEN /\ btn' = BTN_ARM_AWAY
               /\ pc' = "set_wait1"
               /\ UNCHANGED outcome
          ELSE /\ pc' = "idle"
               /\ outcome' = "SystemArmedError"
               /\ UNCHANGED btn
    /\ UNCHANGED <<op, cfg, lg, drv, remote, current_status, retval, hist>>
    /\ UNCHANGED trace

\* if self.state == 'Disarmed': self._set_state(BTN_ARM_STAY) else: raise
ArmStayDecide ==
    /\ pc = "decide"
    /\ op = "arm_stay"
    /\ IF ArmStayAllowed(current_status)
          THEN /\ btn' = BTN_ARM_STAY
               /\ pc' = "set_wait1"
               /\ UNCHANGED outcome
          ELSE /\ pc' = "idle"
               /\ outcome' = "SystemArmedError"
               /\ UNCHANGED btn
    /\ UNCHANGED <<op, cfg, lg, drv, remote, current_status, retval, hist>>
    /\ UNCHANGED trace

----------------------------------------------------------------------------
\* _set_state

\* What the panel does when a control is clicked.
RemoteAfterClick(control, r) ==
    CASE control = "btnDisarm"        -> "Disarmed"
      [] control = "btnArmOptionStay" -> "Armed Stay"
      [] control = "btnArmOptionAway" -> "Armed Away"
      [] OTHER                        -> r

\* Faulty variant: off-by-one arity test, no tuple has a secondary control.
HasSecondary_OffByOne(b) == Len(b) > 3

\* if len(btn) > 2
HasSecondary(b) == Len(b) > 2

SetWaitPrimary ==
    /\ pc = "set_wait1"
    /\ \/ /\ pc' = "set_click1"
          /\ UNCHANGED <<outcome, timedOut>>
       \/ /\ pc' = "idle"
          /\ outcome' = "TimeoutException"
          /\ timedOut' = "primary"
       \/ /\ pc' = "idle"
          /\ outcome' = OtherError
          /\ UNCHANGED timedOut
    /\ UNCHANGED <<op, btn, cfg, lg, drv, remote, current_status, retval, reads,
                   logins, fails, refreshed, readAttempt, readRefreshed, failedReconnect,
                   readsAfterFail, clicks, spinnerGone>>
    /\ UNCHANGED trace

\* button.click(), then `if len(btn) > 2`
SetClickPrimary ==
    /\ pc = "set_click1"
    /\ \/ /\ clicks' = Append(clicks, btn[2])
          /\ remoteAtClick' = remote
          /\ events' = Append(events, "primary")
          /\ remote' = RemoteAfterClick(btn[2], remote)
          /\ IF HasSecondary(btn)
                THEN /\ pc' = "set_wait2"
                     /\ UNCHANGED <<outcome, retval>>
                ELSE /\ pc' = "idle"
                     /\ outcome' = "return"
                     /\ retval' = "None"
       \/ /\ pc' = "idle"
          /\ outcome' = OtherError
          /\ UNCHANGED <<clicks, remote, retval, events, remoteAtClick>>
    /\ UNCHANGED <<op, btn, cfg, lg, drv, current_status, reads, logins, fails, refreshed,
                   readAttempt, readRefreshed, failedReconnect, readsAfterFail,
                   spinnerGone, timedOut>>
    /\ UNCHANGED lastExc

\* Faulty variant: a missing secondary control restarts the sequence.
SetWaitSecondary_Retry ==
    /\ pc = "set_wait2"
    /\ \/ /\ pc' = "set_click2"
          /\ UNCHANGED <<outcome, timedOut>>
       \/ /\ pc' = "set_wait1"
          /\ timedOut' = "secondary"
          /\ UNCHANGED outcome
       \/ /\ pc' = "idle"
          /\ outcome' = OtherError
          /\ UNCHANGED timedOut
    /\ UNCHANGED <<op, btn, cfg, lg, drv, remote, current_status, retval, reads,
                   logins, fails, refreshed, readAttempt, readRefreshed, failedReconnect,
                   readsAfterFail, clicks, spinnerGone>>
    /\ UNCHANGED trace

SetWaitSecondary ==
    /\ pc = "set_wait2"
    /\ \/ /\ pc' = "set_click2"
          /\ UNCHANGED <<outcome, timedOut>>
       \/ /\ pc' = "idle"
          /\ outcome' = "TimeoutException"
          /\ timedOut' = "secondary"
       \/ /\ pc' = "idle"
          /\ outcome' = OtherError
          /\ UNCHANGED timedOut
    /\ UNCHANGED <<op, btn, cfg, lg, drv, remote, current_status, retval, reads,
                   logins, fails, refreshed, readAttempt, readRefreshed, failedReconnect,
                   readsAfterFail, clicks, spinnerGone>>
    /\ UNCHANGED trace

\* Faulty variant: the call returns right after the secondary click.
SetClickSecondary_NoWait ==
    /\ pc = "set_click2"
    /\ \/ /\ clicks' = Append(clicks, btn[3])
          /\ events' = Append(events, "secondary")
          /\ remote' = RemoteAfterClick(btn[3], remote)
          /\ pc' = "idle"
          /\ outcome' = "return"
          /\ retval' = "None"
       \/ /\ pc' = "idle"
          /\ outcome' = OtherError
          /\ UNCHANGED <<clicks, remote, events, retval>>
    /\ UNCHANGED <<op, btn, cfg, lg, drv, current_status, reads, logins, fails,
                   refreshed, readAttempt, readRefreshed, failedReconnect,
                   readsAfterFail, spinnerGone, timedOut>>
    /\ UNCHANGED <<lastExc, remoteAtClick>>

SetClickSecondary ==
    /\ pc = "set_click2"
    /\ \/ /\ clicks' = Append(clicks, btn[3])
          /\ events' = Append(events, "secondary")
          /\ remote' = RemoteAfterClick(btn[3], remote)
          /\ pc' = "set_spinner"
          /\ UNCHANGED outcome
       \/ /\ pc' = "idle"
          /\ outcome' = OtherError
          /\ UNCHANGED <<clicks, remote, events>>
    /\ UNCHANGED <<op, btn, cfg, lg, drv, current_status, retval, reads, logins, fails,
                   refreshed, readAttempt, readRefreshed, failedReconnect,
                   readsAfterFail, spinnerGone, timedOut>>
    /\ UNCHANGED <<lastExc, remoteAtClick>>

\* try: wait for the spinner to go; except TimeoutException: raise ElementException
SetWaitSpinner ==
    /\ pc = "set_spinner"
    /\ \/ /\ spinnerGone' = TRUE
          /\ events' = Append(events, "spinner")
          /\ pc' = "idle"
          /\ outcome' = "return"
          /\ retval' = "None"
          /\ UNCHANGED timedOut
       \/ /\ pc' = "idle"
          /\ outcome' = "ElementException"
          /\ timedOut' = "spinner"
          /\ UNCHANGED <<spinnerGone, retval, events>>
       \/ /\ pc' = "idle"
          /\ outcome' = OtherError
          /\ UNCHANGED <<spinnerGone, retval, timedOut, events>>
    /\ UNCHANGED <<op, btn, cfg, lg, drv, remote, current_status, reads, logins, fails,
                   refreshed, readAttempt, readRefreshed, failedReconnect,
                   readsAfterFail, clicks>>
    /\ UNCHANGED <<lastExc, remoteAtClick>>

----------------------------------------------------------------------------
\* The panel is operated from somewhere else (keypad, another client).
RemoteChange ==
    /\ pc \notin {"new", "dead"}
    /\ \E s \in AlarmStates \ {remote} : remote' = s
    /\ UNCHANGED <<pc, op, btn, cfg, lg, drv, res, hist>>
    /\ UNCHANGED trace

----------------------------------------------------------------------------
\* Steps of the controller's own code, as opposed to the caller's decisions
\* to call and the panel's changes.
ProgramStep ==
    \/ InitAfterLogin
    \/ LoginOpen
    \/ LoginCheckTitle
    \/ LoginFind
    \/ LoginSubmit
    \/ LoginCheckLanding
    \/ StateWaitRefresh
    \/ StateClickRefresh
    \/ StateRead
    \/ StateExcept
    \/ StateAfterLogin
    \/ DisarmDecide
    \/ ArmAwayDecide
    \/ ArmStayDecide
    \/ SetWaitPrimary
    \/ SetClickPrimary
    \/ SetWaitSecondary
    \/ SetClickSecondary
    \/ SetWaitSpinner

Next ==
    \/ Construct
    \/ CallState
    \/ CallDisarm
    \/ CallArmAway
    \/ CallArmStay
    \/ RemoteChange
    \/ ProgramStep

Spec == Init /\ [][Next]_vars

\* Every driver call returns or raises within its timeout, so the code
\* always reaches its next statement.
LiveSpec == Init /\ [][Next]_vars /\ WF_vars(ProgramStep)

----------------------------------------------------------------------------
\* Vocabulary of the properties

ActionOps == {"disarm", "arm_away", "arm_stay"}
ArmOps    == {"arm_away", "arm_stay"}
CallOps   == {"state"} \cup ActionOps

\* A public call other than the constructor is running.
InCall == op \in CallOps /\ pc # "idle"

\* The public status query has handed a value to its caller.
StateReturned == op = "state" /\ pc = "idle" /\ outcome = "return"

\* state() has produced a value in this call (returned it, or handed it to
\* the comparison in disarm/arm_away/arm_stay).
StatusKnown == current_status # "NoValue"

\* The last _login stopped at the first title test.
InitialMismatch == ~submitted /\ title \in Titles \ {LoginTitle}

\* The last _login stopped at the title test after the sign-in click.
LandingMismatch == submitted /\ title # LandingTitle

----------------------------------------------------------------------------
\* C1: a status() call never makes a second reconnect or a third read
\* attempt, and one whose read failed transiently twice ends with
\* StatusUnavailable.  (The code violates it: the except clause calls
\* _login and state again without any cap.)
C1_SingleRetryThenUnavailable ==
    /\ logins <= 1
    /\ reads <= 2
    /\ (pc = "idle" /\ op \in CallOps /\ fails >= 2) => outcome = "StatusUnavailable"

\* C2: every call of status(), disarm(), armStay() or armAway() eventually
\* terminates, whatever the driver answers.  (Checked under LiveSpec; the
\* code violates it with a driver whose status read fails on every attempt.)
C2_EveryCallTerminates == InCall ~> (pc = "idle")

\* C3: every value status() produces was read from the status image after
\* a refresh click made in the same call on the driver that is current at
\* the read (so after the reconnect, when there was one), and the value
\* returned is that value.
C3_ValueReadAfterRefresh ==
    /\ StatusKnown => readRefreshed
    /\ StatusKnown => readAttempt = reads
    /\ StateReturned => (StatusKnown /\ retval = current_status)

C3_Witness == StateReturned /\ logins >= 1 /\ readRefreshed

\* C4: disarm() whose status read gave Disarmed raises SystemDisarmedError
\* and never enters _set_state: no action control is clicked.
C4_DisarmWhenDisarmedRejected ==
    (op = "disarm" /\ current_status = "Disarmed") =>
        /\ pc \in {"decide", "idle"}
        /\ clicks = <<>>
        /\ btn = <<>>
        /\ pc = "idle" => outcome = "SystemDisarmedError"

C4_Witness ==
    /\ op = "disarm" /\ pc = "idle" /\ current_status = "Disarmed"
    /\ outcome = "SystemDisarmedError"

\* C5: arm_stay() and arm_away() whose status read gave anything but
\* Disarmed raise SystemArmedError and never enter _set_state: neither the
\* primary nor the secondary arm control is clicked.
C5_ArmWhenNotDisarmedRejected ==
    (op \in ArmOps /\ StatusKnown /\ current_status # "Disarmed") =>
        /\ pc \in {"decide", "idle"}
        /\ clicks = <<>>
        /\ btn = <<>>
        /\ pc = "idle" => outcome = "SystemArmedError"

C5_Witness ==
    /\ op = "arm_away" /\ pc = "idle" /\ current_status = "Armed Stay"
    /\ outcome = "SystemArmedError" /\ clicks = <<>>

\* C6: the constructor raises LoginException and yields no controller
\* whenever its _login stopped at either title test, and a _login whose
\* first title test failed never reaches the statements that find, fill and
\* submit the login form.
C6_LoginFailure ==
    /\ (op = "init" /\ pc \in {"idle", "dead"} /\ (InitialMismatch \/ LandingMismatch))
          => (pc = "dead" /\ outcome = "LoginException")
    /\ InitialMismatch => pc \notin {"login_find", "login_submit", "login_landing"}
    /\ (pc = "login_ret" /\ InitialMismatch) => loginResult = "False"

C6_Witness ==
    /\ op = "init" /\ pc = "dead" /\ outcome = "LoginException"
    /\ LandingMismatch /\ sentPwd = "bad"

\* C7: once the _login made by state() has returned False, the call is over
\* with LoginException: no further read attempt, no further login.  (The
\* code violates it: line 153 drops the value and line 154 reads again.)
C7_FailedReconnectSurfaces ==
    failedReconnect =>
        /\ pc = "idle"
        /\ outcome = "LoginException"
        /\ readsAfterFail = 0

\* C8: a timeout of any wait of _set_state reaches the caller as
\* ElementException.  (The code violates it: only the spinner wait is
\* inside the try, the two visibility waits raise TimeoutException.)
C8_TimeoutsAreElementException ==
    (pc = "idle" /\ timedOut # "none") => outcome = "ElementException"

\* C9: the secondary control is clicked by the arm sequences and only by
\* them.  A disarm call clicks nothing but the disarm control and never
\* reaches the secondary statements; an arm call clicks its primary control
\* and then its own secondary control, in that order; after the primary
\* click it is at the wait for, or the click of, its secondary control
\* unless that wait or click raised; and it never returns without having
\* clicked the secondary control.
C9_SecondaryIffArm ==
    /\ op = "disarm" =>
          /\ clicks \in {<<>>, <<"btnDisarm">>}
          /\ pc \notin {"set_wait2", "set_click2", "set_spinner"}
    /\ op = "arm_stay" =>
          clicks \in {<<>>, <<"btnArmStay">>, <<"btnArmStay", "btnArmOptionStay">>}
    /\ op = "arm_away" =>
          clicks \in {<<>>, <<"btnArmAway">>, <<"btnArmAway", "btnArmOptionAway">>}
    /\ (op \in ArmOps /\ Len(clicks) = 1) =>
          \/ pc \in {"set_wait2", "set_click2"}
          \/ pc = "idle" /\ outcome \in {"TimeoutException", OtherError}
    /\ (op \in ArmOps /\ pc = "idle" /\ outcome = "return") => Len(clicks) = 2
    /\ (op \notin ActionOps) => clicks = <<>>

C9_Witness ==
    /\ op = "arm_stay" /\ pc = "idle" /\ outcome = "return"
    /\ clicks = <<"btnArmStay", "btnArmOptionStay">>

\* C10: when the first attempt of state() failed transiently and the
\* attempt after the reconnect succeeded, the value produced is the one
\* read on the second attempt and exactly one _login was made in the call.
C10_SecondAttemptValue ==
    /\ (StatusKnown /\ reads = 2) => (logins = 1 /\ fails = 1 /\ readAttempt = 2)
    /\ (StateReturned /\ reads = 2) => retval = current_status

C10_Witness ==
    /\ StateReturned /\ reads = 2 /\ fails = 1 /\ logins = 1
    /\ retval = "Disarmed"

----------------------------------------------------------------------------
IsPrefix(a, b) == Len(a) <= Len(b) /\ a = SubSeq(b, 1, Len(a))

\* The tuple each action passes to _set_state.
TupleOf(o) ==
    CASE o = "disarm"   -> BTN_DISARM
      [] o = "arm_stay" -> BTN_ARM_STAY
      [] o = "arm_away" -> BTN_ARM_AWAY
      [] OTHER          -> <<>>

FullArmSequence == <<"refresh", "read", "primary", "secondary", "spinner">>

SetStatePcs == {"set_wait1", "set_click1", "set_wait2", "set_click2", "set_spinner"}

\* C11: an arm call that read Disarmed and met no driver failure returns
\* successfully, and a successful arm call has made, each once and in this
\* order, the refresh click, the status read, the click of its primary
\* control, the click of its secondary control and the spinner wait; at no
\* moment of an arm call is the secondary click ahead of the primary one.
C11_ArmSequenceOrder ==
    /\ (op \in ArmOps /\ pc = "idle" /\ outcome = "return") =>
          /\ events = FullArmSequence
          /\ btn = TupleOf(op)
          /\ clicks = <<btn[2], btn[3]>>
          /\ current_status = "Disarmed"
    /\ op \in ArmOps => IsPrefix(events, FullArmSequence)
    /\ (op \in ArmOps /\ pc = "idle" /\ current_status = "Disarmed"
          /\ outcome \notin {"TimeoutException", "ElementException", OtherError})
          => outcome = "return"
    /\ fails = 0 => reads <= 1

C11_Witness ==
    /\ op = "arm_away" /\ pc = "idle" /\ outcome = "return" /\ fails = 0
    /\ events = FullArmSequence /\ clicks = <<"btnArmAway", "btnArmOptionAway">>

\* C12: the refresh click, the status read and the action clicks are only
\* ever made on a driver whose _login returned True.  (The code violates
\* it: state() goes on with the driver of a _login that returned False.)
C12_OnlyAuthenticatedSessionUsed ==
    (refreshed \/ StatusKnown \/ clicks # <<>>) => authed

\* C13: a failure inside _set_state ends the call at the failing
\* statement: after a timed-out wait the call is over with the clicks made
\* so far, _set_state never leads to _login or back to an earlier
\* statement, and no control is clicked twice.
C13_NoLocalRecovery ==
    /\ timedOut # "none" =>
          (pc = "idle" /\ outcome \in {"TimeoutException", "ElementException"})
    /\ timedOut = "primary" => clicks = <<>>
    /\ timedOut = "secondary" => clicks = <<btn[2]>>
    /\ timedOut = "spinner" => clicks = <<btn[2], btn[3]>>
    /\ btn # <<>> => pc \in SetStatePcs \cup {"idle"}
    /\ \A i, j \in 1..Len(clicks) : clicks[i] = clicks[j] => i = j

C13_Witness ==
    /\ op = "arm_away" /\ pc = "idle" /\ timedOut = "secondary"
    /\ clicks = <<"btnArmAway">> /\ logins = 0

\* C14: a successful disarm(), arm_stay() or arm_away() has seen the spinner
\* disappear after its last click.  (The code violates it for disarm: the
\* spinner wait is inside `if len(btn) > 2`.)
C14_SuccessMeansSpinnerGone ==
    (op \in ActionOps /\ pc = "idle" /\ outcome = "return") =>
        (spinnerGone /\ events # <<>> /\ events[Len(events)] = "spinner")

\* C15: an action call that entered _set_state or rejected the request has
\* first made, in the same call, the refresh click and then the status read,
\* and which of the two it did is a function of the value of that read.
C15_DecisionOnFreshRead ==
    /\ (op \in ActionOps /\ (btn # <<>> \/ clicks # <<>>
                              \/ outcome \in {"SystemArmedError", "SystemDisarmedError"})) =>
          /\ StatusKnown
          /\ readRefreshed
          /\ IsPrefix(<<"refresh", "read">>, events)
    /\ btn # <<>> =>
          /\ btn = TupleOf(op)
          /\ op = "disarm" => current_status # "Disarmed"
          /\ op \in ArmOps => current_status = "Disarmed"
    /\ outcome = "SystemDisarmedError" => (op = "disarm" /\ current_status = "Disarmed")
    /\ outcome = "SystemArmedError" => (op \in ArmOps /\ current_status # "Disarmed")

C15_Witness ==
    /\ op = "disarm" /\ clicks = <<"btnDisarm">> /\ logins >= 1
    /\ current_status = "Armed Stay"

\* C16: disarm() whose status read gave anything but Disarmed runs
\* _set_state(BTN_DISARM): it waits for the disarm control and clicks it,
\* once, unless that wait or click raised.
C16_DisarmExecutes ==
    (op = "disarm" /\ StatusKnown /\ current_status # "Disarmed" /\ pc # "decide") =>
        /\ btn = BTN_DISARM
        /\ pc \in {"set_wait1", "set_click1", "idle"}
        /\ pc = "set_wait1" => clicks = <<>>
        /\ pc = "set_click1" => clicks = <<>>
        /\ pc = "idle" =>
              \/ clicks = <<"btnDisarm">> /\ outcome = "return"
              \/ clicks = <<>> /\ outcome \in {"TimeoutException", OtherError}

C16_Witness ==
    /\ op = "disarm" /\ pc = "idle" /\ current_status = "Unknown"
    /\ clicks = <<"btnDisarm">> /\ outcome = "return"

\* C17: _login is called by state() only for a failure of the caught set,
\* once per such failure; any other failure of the try block ends the call
\* with that failure, and a call whose first attempt succeeded made no
\* _login.
C17_OnlyTransientReconnects ==
    /\ pc = "st_except" => lastExc \in TransientErrors
    /\ logins <= fails
    /\ pc # "st_except" => logins = fails
    /\ lastExc \notin (TransientErrors \cup {"none"}) =>
          (pc = "idle" /\ outcome = lastExc)
    /\ (StatusKnown /\ readAttempt = 1) => (logins = 0 /\ fails = 0)

C17_Witness ==
    /\ op = "state" /\ pc = "idle" /\ lastExc = OtherError /\ outcome = OtherError
    /\ fails = 1 /\ logins = 1

\* C18: at most one browser is open at any time.  (The code violates it:
\* _login starts a new PhantomJS and nothing ever quits the previous one.)
C18_AtMostOneSession == drivers <= 1

\* C19: after construction no step changes self.username, self.password or
\* self.timeout, and whenever a _login has typed the credentials they are
\* the stored ones.
C19_ConfigurationImmutable ==
    [][ /\ pc # "new" => cfg' = cfg
        /\ submitted' => (sentUser' = username' /\ sentPwd' = password') ]_vars

C19_Witness ==
    /\ loginCaller = "state" /\ logins >= 1 /\ submitted
    /\ sentUser = "alice" /\ sentPwd = "good"

\* C20 as stated: at the click of the primary control the panel is
\* Disarmed for an arm action and not Disarmed for disarm.  (Fails: the
\* panel can be operated between the status read and the click.)
C20_PreconditionHoldsAtClick ==
    remoteAtClick # "none" =>
        /\ op \in ArmOps => remoteAtClick = "Disarmed"
        /\ op = "disarm" => remoteAtClick # "Disarmed"

\* C20 as amended: the primary control is clicked only when the status
\* value read in the same call was Disarmed (arm) or not Disarmed (disarm);
\* the panel itself may have changed since that read.
C20_ClickFollowsOwnRead ==
    remoteAtClick # "none" =>
        /\ StatusKnown
        /\ readRefreshed
        /\ op \in ArmOps => current_status = "Disarmed"
        /\ op = "disarm" => current_status # "Disarmed"

C20_Witness ==
    /\ op = "arm_stay" /\ remoteAtClick = "Armed Away"
    /\ current_status = "Disarmed" /\ clicks # <<>>

====
